---- MODULE Spec2Model ----
(***************************************************************************)
(* Memory-enhanced email agent (memory-agent-tutorial.ipynb).              *)
(*                                                                         *)
(* State: the shared InMemoryStore, the orchestration runs of the graph    *)
(* built by create_email_agent (triage -> route -> response_agent), and    *)
(* the calls of optimize_prompts.  Runs and optimizer calls are processes  *)
(* that interleave at their store operations and oracle calls.             *)
(*                                                                         *)
(* The store, the ReAct loop of create_react_agent and the structured      *)
(* output of llm_router are library calls of the notebook; they are        *)
(* modelled by what the calls do at the lines that make them.              *)
(***************************************************************************)
EXTENDS Naturals, Sequences, FiniteSets, TLC

VARIABLES
    store,       \* InMemoryStore: namespace -> items in insertion order
    run,         \* per orchestration run: position and State
    opt,         \* per optimize_prompts call: position and locals
    written,     \* history: last value handed to store.put per (namespace, key)
    lastGet,     \* history: the most recent store.get and what it returned
    lastSearch   \* history: the most recent store.search and what it returned

vars == <<store, run, opt, written, lastGet, lastSearch>>

---------------------------------------------------------------------------
(* Bounds of the model *)

MaxRuns == 1
MaxOpts == 1
\* recursion limit of the response agent's graph (the notebook sets none)
RecursionLimit == 3
\* memories the manage-memory tool may create per identity
MaxFacts == 1

Runs == 1..MaxRuns
Opts == 1..MaxOpts
Users == {"test_user", "other_user"}

---------------------------------------------------------------------------
(* Values *)

None == [none |-> TRUE]

Labels == {"ignore", "respond", "notify"}

Namespace(user_id, category) == <<"email_assistant", user_id, category>>
Categories == {"prompts", "examples", "collection"}
Namespaces == {Namespace(u, c) : u \in Users, c \in Categories}

PromptKeys == {"triage_prompt", "response_prompt"}
ExampleKeys == {"spam_example", "api_doc_example"}
\* keys of further examples a caller may store
SampleKeys == {"example_1", "example_2", "example_3"}
MemoryKey(n) == "memory_" \o ToString(n)
MemoryKeys == {MemoryKey(n) : n \in 1..(MaxFacts + MaxRuns)}
KeysOf(ns) ==
    IF ns[3] = "prompts" THEN PromptKeys
    ELSE IF ns[3] = "examples" THEN ExampleKeys \cup SampleKeys
    ELSE MemoryKeys

\* A prompt is its text, as the sequence of the paragraphs it is made of.
initial_triage_prompt == <<"triage_template">>
initial_response_prompt == <<"helpful_assistant">>
triage_note == "note_api_documentation_respond"
response_note == "note_acknowledge_specific_issue"
revised_paragraph == "revised_by_optimizer"

email_input ==
    [author |-> "alice", to |-> "john", subject |-> "api_documentation",
     email_thread |-> <<"missing", "endpoints">>]
example1 ==
    [email |-> [author |-> "spam", to |-> "john", subject |-> "big_sale",
                email_thread |-> <<"buy", "now">>],
     label |-> "ignore"]
api_doc_example ==
    [email |-> [author |-> "dev", to |-> "john", subject |-> "api_documentation",
                email_thread |-> <<"missing", "endpoints", "urgent">>],
     label |-> "respond"]
\* characters of the body kept by email['email_thread'][:300]
BodyLimit == 300

\* a body longer than the part an example's rendering keeps
LongBody == [i \in 1..(BodyLimit + 1) |-> IF i > BodyLimit THEN "tail" ELSE "c"]

\* further examples: same sender and subject as email_input, and same
\* sender only
same_thread_example ==
    [email |-> [author |-> "alice", to |-> "john", subject |-> "api_documentation",
                email_thread |-> LongBody],
     label |-> "respond"]
same_sender_example ==
    [email |-> [author |-> "alice", to |-> "john", subject |-> "lunch",
                email_thread |-> <<"lunch", "friday">>],
     label |-> "notify"]
SampleExamples ==
    {same_thread_example, api_doc_example, same_sender_example, example1}

ExampleOf(key) == IF key = "spam_example" THEN example1 ELSE api_doc_example
\* an incoming email without its "to" field
email_without_to ==
    [author |-> "alice", subject |-> "api_documentation",
     email_thread |-> <<"missing", "endpoints">>]
Emails == {email_input, email_without_to}

\* a memory tool that files the incoming email of the state
email_as_memory == email_input

memory_content == [kind |-> "Memory", content |-> "contact_preference"]

ToolNames == {"write_email", "check_calendar_availability",
              "manage_memory", "search_memory"}

---------------------------------------------------------------------------
(* InMemoryStore *)

IsPrefix(p, s) ==
    /\ Len(p) <= Len(s)
    /\ \A i \in 1..Len(p) : p[i] = s[i]

\* position of key in the namespace's items, 0 when absent
Find(st, ns, key) ==
    IF \E i \in 1..Len(st[ns]) : st[ns][i].key = key
    THEN CHOOSE i \in 1..Len(st[ns]) : st[ns][i].key = key
    ELSE 0

\* a put that inserts a new key and leaves an existing one as it was
PutIfAbsent(st, ns, key, value) ==
    IF Find(st, ns, key) = 0
    THEN [st EXCEPT ![ns] = Append(@, [key |-> key, value |-> value])]
    ELSE st

\* a put of a prompt that a reader can see half done: only the last
\* paragraph of the new text is in place
PutPartial(st, ns, key, value) ==
    LET i == Find(st, ns, key)
        part == IF ns[3] = "prompts" /\ i # 0 THEN SubSeq(value, Len(value), Len(value))
                ELSE value
    IN
    IF i = 0
    THEN [st EXCEPT ![ns] = Append(@, [key |-> key, value |-> part])]
    ELSE [st EXCEPT ![ns][i].value = part]

\* a put that always adds a record, also when the key exists
PutAppend(st, ns, key, value) ==
    [st EXCEPT ![ns] = Append(@, [key |-> key, value |-> value])]

\* store.put(namespace, key, value): upsert, keeping the key's place
Put(st, ns, key, value) ==
    LET i == Find(st, ns, key) IN
    IF i = 0
    THEN [st EXCEPT ![ns] = Append(@, [key |-> key, value |-> value])]
    ELSE [st EXCEPT ![ns][i].value = value]

\* store.get(namespace, key): the Item, or None
Get(st, ns, key) ==
    LET i == Find(st, ns, key) IN
    IF i = 0 THEN None
    ELSE [namespace |-> ns, key |-> key, value |-> st[ns][i].value]

\* default of store.search(namespace, query=...) when no limit is passed
SearchLimit == 10

\* what a value or a query is about, as the embedding sees it
Topic(v) ==
    IF "email" \in DOMAIN v THEN v.email.subject
    ELSE IF "subject" \in DOMAIN v THEN v.subject
    ELSE v.content

\* who a value or a query is from, as the embedding sees it
Sender(v) ==
    IF "email" \in DOMAIN v THEN v.email.author
    ELSE IF "author" \in DOMAIN v THEN v.author
    ELSE "none"

\* similarity of the query to a stored value under the store's embedding:
\* the more of the text they share, the higher
Score(query, value) ==
    (IF Topic(query) = Topic(value) THEN 2 ELSE 0)
    + (IF Sender(query) = Sender(value) THEN 1 ELSE 0)

\* a match that drops the identity: the same category under any user
RECURSIVE ItemsOfCategory(_, _, _)
ItemsOfCategory(st, prefix, nss) ==
    IF nss = {} THEN <<>>
    ELSE LET ns == CHOOSE n \in nss : TRUE
             here == IF ns[1] = prefix[1] /\ ns[3] = prefix[3]
                     THEN [i \in 1..Len(st[ns]) |->
                              [namespace |-> ns, key |-> st[ns][i].key,
                               value |-> st[ns][i].value]]
                     ELSE <<>>
         IN here \o ItemsOfCategory(st, prefix, nss \ {ns})

\* an index built at the first put of a namespace and not kept up: only the
\* oldest record of each namespace is found
RECURSIVE ItemsIndexedFirst(_, _, _)
ItemsIndexedFirst(st, prefix, nss) ==
    IF nss = {} THEN <<>>
    ELSE LET ns == CHOOSE n \in nss : TRUE
             here == IF IsPrefix(prefix, ns) /\ st[ns] # <<>>
                     THEN <<[namespace |-> ns, key |-> st[ns][1].key,
                             value |-> st[ns][1].value]>>
                     ELSE <<>>
         IN here \o ItemsIndexedFirst(st, prefix, nss \ {ns})

\* the items of every namespace that starts with the prefix
RECURSIVE ItemsUnder(_, _, _)
ItemsUnder(st, prefix, nss) ==
    IF nss = {} THEN <<>>
    ELSE LET ns == CHOOSE n \in nss : TRUE
             here == IF IsPrefix(prefix, ns)
                     THEN [i \in 1..Len(st[ns]) |->
                              [namespace |-> ns, key |-> st[ns][i].key,
                               value |-> st[ns][i].value]]
                     ELSE <<>>
         IN here \o ItemsUnder(st, prefix, nss \ {ns})

\* an insertion that puts a later item before earlier ones of equal score
RECURSIVE InsertBeforeTies(_, _)
InsertBeforeTies(sorted, item) ==
    IF sorted = <<>> THEN <<item>>
    ELSE IF Head(sorted).score > item.score
         THEN <<Head(sorted)>> \o InsertBeforeTies(Tail(sorted), item)
         ELSE <<item>> \o sorted

\* stable insertion of an item into a sequence sorted by decreasing score
RECURSIVE InsertByScore(_, _)
InsertByScore(sorted, item) ==
    IF sorted = <<>> THEN <<item>>
    ELSE IF Head(sorted).score >= item.score
         THEN <<Head(sorted)>> \o InsertByScore(Tail(sorted), item)
         ELSE <<item>> \o sorted

RECURSIVE SortByScore(_)
SortByScore(items) ==
    IF items = <<>> THEN <<>>
    ELSE InsertByScore(SortByScore(SubSeq(items, 1, Len(items) - 1)),
                       items[Len(items)])

\* a limit that is ignored
TakeAll(s, n) == s

Take(s, n) == SubSeq(s, 1, IF Len(s) < n THEN Len(s) ELSE n)

\* store.search(namespace_prefix, query=query, limit=limit)
Search(st, prefix, query, limit) ==
    LET items == ItemsUnder(st, prefix, Namespaces)
        scored == [i \in 1..Len(items) |->
                      [namespace |-> items[i].namespace, key |-> items[i].key,
                       value |-> items[i].value,
                       score |-> Score(query, items[i].value)]]
    IN Take(SortByScore(scored), limit)

---------------------------------------------------------------------------
(* Episodic retriever *)

\* A rendered text is the sequence of its pieces: the literal parts of the
\* f-string, the substituted fields, and the characters of the body.
Newline == "NL"
BlankLine == "NLNL"

\* a rendering that keeps the whole body
FormatWholeBody(eg) ==
    <<"From: ", eg.value.email.author, Newline,
      "Subject: ", eg.value.email.subject, Newline, "Body: ">>
    \o eg.value.email.email_thread
    \o <<"...", BlankLine, "Classification: ", eg.value.label>>

\* the f-string of one example:
\* "From: {author}\nSubject: {subject}\nBody: {email_thread[:300]}...\n\n
\*  Classification: {label}"
FormatExample(eg) ==
    <<"From: ", eg.value.email.author, Newline,
      "Subject: ", eg.value.email.subject, Newline, "Body: ">>
    \o Take(eg.value.email.email_thread, BodyLimit)
    \o <<"...", BlankLine, "Classification: ", eg.value.label>>

\* "\n\n".join(blocks)
RECURSIVE Join(_)
Join(blocks) ==
    IF blocks = <<>> THEN <<>>
    ELSE IF Len(blocks) = 1 THEN blocks[1]
    ELSE blocks[1] \o <<BlankLine>> \o Join(Tail(blocks))

\* a rendering that lists the examples last to first
format_reversed(examples) ==
    Join([i \in 1..Len(examples) |->
             FormatExample(examples[Len(examples) + 1 - i])])

\* one block per example, in the order given, joined by blank lines
format_few_shot_examples(examples) ==
    Join([i \in 1..Len(examples) |-> FormatExample(examples[i])])

---------------------------------------------------------------------------
(* History of the store operations *)

\* record that value was handed to store.put by optimizer call `by` (0: not
\* an optimizer call)
Wrote(w, ns, key, value, by) ==
    [w EXCEPT ![ns][key] = [value |-> value, by |-> by]]

GetRecord(ns, key, item) == [namespace |-> ns, key |-> key, item |-> item]
SearchRecord(ns, query, limit, results) ==
    [namespace |-> ns, query |-> query, limit |-> limit, results |-> results]

---------------------------------------------------------------------------
(* Initial state: store = InMemoryStore(...), nothing running *)

IdleRun ==
    [pc |-> "idle", user |-> "test_user", email_input |-> email_input,
     messages |-> <<>>, triage_result |-> "unset",
     current_prompt_template |-> <<>>, formatted_examples |-> <<>>,
     system_prompt |-> <<>>, steps |-> 0, error |-> "none",
     outcome |-> "none",
     \* history
     input_messages |-> <<>>, start_triage |-> None, start_response |-> None,
     started_after |-> {}, agent_calls |-> 0, tool_calls |-> 0,
     router_calls |-> 0, tool_errors |-> 0,
     \* the tools node at work on a message with several tool calls
     pending |-> <<>>, in_progress |-> {}, observed |-> {}]

IdleOpt ==
    [pc |-> "idle", user |-> "test_user", feedback |-> "none",
     triage_prompt |-> <<>>, response_prompt |-> <<>>,
     improved_triage_prompt |-> <<>>, improved_response_prompt |-> <<>>,
     path |-> "none", error |-> "none", raised |-> FALSE, names |-> {}]

Init ==
    /\ store = [ns \in Namespaces |-> <<>>]
    /\ run = [r \in Runs |-> IdleRun]
    /\ opt = [o \in Opts |-> IdleOpt]
    /\ written = [ns \in Namespaces |-> [k \in KeysOf(ns) |-> None]]
    /\ lastGet = None
    /\ lastSearch = None

---------------------------------------------------------------------------
(* Explicit writes of the notebook: the initial prompts and the examples *)

\* store.put((..., "prompts"), "triage_prompt", initial_triage_prompt)
PutInitialTriagePrompt(u) ==
    LET ns == Namespace(u, "prompts") IN
    /\ Get(store, ns, "triage_prompt") = None
    /\ store' = Put(store, ns, "triage_prompt", initial_triage_prompt)
    /\ written' = Wrote(written, ns, "triage_prompt", initial_triage_prompt, 0)
    /\ UNCHANGED <<run, opt, lastGet, lastSearch>>

\* store.put((..., "prompts"), "response_prompt", initial_response_prompt)
PutInitialResponsePrompt(u) ==
    LET ns == Namespace(u, "prompts") IN
    /\ Get(store, ns, "response_prompt") = None
    /\ store' = Put(store, ns, "response_prompt", initial_response_prompt)
    /\ written' = Wrote(written, ns, "response_prompt", initial_response_prompt, 0)
    /\ UNCHANGED <<run, opt, lastGet, lastSearch>>

\* a correction stored under the key of the first example
PutOverExample(u, key) ==
    LET ns == Namespace(u, "examples") IN
    /\ store' = Put(store, ns, "spam_example", ExampleOf(key))
    /\ written' = Wrote(written, ns, "spam_example", ExampleOf(key), 0)
    /\ UNCHANGED <<run, opt, lastGet, lastSearch>>

\* store.put((..., "examples"), "spam_example" | "api_doc_example", example)
PutExample(u, key) ==
    LET ns == Namespace(u, "examples") IN
    /\ Get(store, ns, key) = None
    /\ store' = Put(store, ns, key, ExampleOf(key))
    /\ written' = Wrote(written, ns, key, ExampleOf(key), 0)
    /\ UNCHANGED <<run, opt, lastGet, lastSearch>>

\* store.put((..., "examples"), key, example) for any key and example, an
\* existing key included
PutSample(u, key, eg) ==
    LET ns == Namespace(u, "examples") IN
    /\ store' = Put(store, ns, key, eg)
    /\ written' = Wrote(written, ns, key, eg, 0)
    /\ UNCHANGED <<run, opt, lastGet, lastSearch>>

\* store.search((..., "examples"), query=str(email), limit=limit)
SearchCall(u, query, limit) ==
    LET ns == Namespace(u, "examples") IN
    /\ lastSearch' = SearchRecord(ns, query, limit, Search(store, ns, query, limit))
    /\ UNCHANGED <<store, run, opt, written, lastGet>>

---------------------------------------------------------------------------
(* Orchestration run: the graph of create_email_agent *)

CompletedOpts == {o \in Opts : opt[o].pc = "returned"}

\* agent.stream({"email_input": email, "messages": []}, config): START -> triage
StartRun(r, u, email) ==
    /\ run[r].pc = "idle"
    /\ run' = [run EXCEPT ![r] =
                 [IdleRun EXCEPT
                    !.pc = "triage", !.user = u, !.email_input = email,
                    !.start_triage = Get(store, Namespace(u, "prompts"), "triage_prompt"),
                    !.start_response = Get(store, Namespace(u, "prompts"), "response_prompt"),
                    !.started_after = CompletedOpts]]
    /\ UNCHANGED <<store, opt, written, lastGet, lastSearch>>

\* a triage prompt read from the namespace of one fixed identity
get_shared_triage_prompt(st, user_id) ==
    Get(st, Namespace("test_user", "prompts"), "triage_prompt")

\* store.get((..., user_id, "prompts"), "triage_prompt"): the Item or None
get_triage_prompt(st, user_id) ==
    Get(st, Namespace(user_id, "prompts"), "triage_prompt")

\* a substitution that asks the email for no field
NoTemplateFields == {}

\* fields the triage template substitutes from the email
TemplateFields == {"author", "to", "subject", "email_thread"}

\* triage_email_with_procedural_memory, up to the formatted prompt:
\* store.get(...).value, store.search(...), format_few_shot_examples, format
TriageRead(r) ==
    LET u == run[r].user
        ns == Namespace(u, "prompts")
        item == get_triage_prompt(store, u)
        namespace == Namespace(u, "examples")
        examples == Search(store, namespace, run[r].email_input, SearchLimit)
    IN
    /\ run[r].pc = "triage"
    /\ lastGet' = GetRecord(ns, "triage_prompt", item)
    /\ IF item = None
       THEN \* None.value raises AttributeError
            /\ run' = [run EXCEPT ![r].pc = "failed", ![r].error = "AttributeError"]
            /\ UNCHANGED lastSearch
       ELSE /\ lastSearch' = SearchRecord(namespace, run[r].email_input, SearchLimit,
                                            examples)
            /\ IF TemplateFields \subseteq DOMAIN run[r].email_input
               THEN run' = [run EXCEPT
                              ![r].pc = "triage_llm",
                              ![r].current_prompt_template = item.value,
                              ![r].formatted_examples = format_few_shot_examples(examples)]
               ELSE run' = [run EXCEPT ![r].pc = "failed", ![r].error = "KeyError"]
    /\ UNCHANGED <<store, opt, written>>

\* what llm_router may hand back: a Router with one of the three labels, or
\* output that does not validate against Router
RouterOutputs == Labels \cup {"invalid"}

\* a Router whose classification is a plain str
AnyString(classification) == TRUE

\* Router.classification: Literal["ignore", "respond", "notify"]
RouterValidates(classification) == classification \in Labels

\* a triage node that also returns a message for the history
TriageInvokeReplying(r) ==
    /\ run[r].pc = "triage_llm"
    /\ \E out \in Labels :
         run' = [run EXCEPT ![r].pc = "route", ![r].triage_result = out,
                            ![r].router_calls = @ + 1,
                            ![r].messages =
                                Append(@, [type |-> "ai", tool_call |-> "none",
                                           content |-> out])]
    /\ UNCHANGED <<store, opt, written, lastGet, lastSearch>>

\* a triage node that files the classified email among the examples
TriageInvokeRecording(r) ==
    /\ run[r].pc = "triage_llm"
    /\ \E out \in Labels :
         /\ run' = [run EXCEPT ![r].pc = "route", ![r].triage_result = out,
                                 ![r].router_calls = @ + 1]
         /\ store' = Put(store, Namespace(run[r].user, "examples"), "example_1",
                         [email |-> email_input, label |-> out])
    /\ UNCHANGED <<opt, written, lastGet, lastSearch>>

\* result = llm_router.invoke(messages); return {"triage_result": ...}
TriageInvoke(r) ==
    /\ run[r].pc = "triage_llm"
    /\ \E out \in RouterOutputs :
         IF RouterValidates(out)
         THEN run' = [run EXCEPT ![r].pc = "route", ![r].triage_result = out,
                                 ![r].router_calls = @ + 1]
         ELSE run' = [run EXCEPT ![r].pc = "failed", ![r].error = "ValidationError",
                                 ![r].router_calls = @ + 1]
    /\ UNCHANGED <<store, opt, written, lastGet, lastSearch>>

\* a router with an edge back to the triage node
route_back_to_triage(state) ==
    IF state.triage_result = "respond" THEN "response_agent"
    ELSE IF state.triage_result = "notify" THEN "triage" ELSE "END"

\* a router that also sends notify to the response agent
route_unless_ignore(state) ==
    IF state.triage_result \in {"respond", "notify"} THEN "response_agent" ELSE "END"

route_based_on_triage(state) ==
    IF state.triage_result = "respond" THEN "response_agent" ELSE "END"

\* the conditional edge out of triage
Route(r) ==
    /\ run[r].pc = "route"
    /\ run' = [run EXCEPT ![r].pc = route_based_on_triage(run[r])]
    /\ UNCHANGED <<store, opt, written, lastGet, lastSearch>>

---------------------------------------------------------------------------
(* Response agent: create_react_agent(tools, prompt=create_agent_prompt, ...) *)

AIMessage(tool_call, content) ==
    [type |-> "ai", tool_call |-> tool_call, content |-> content]
ToolMessage(name, content) ==
    [type |-> "tool", tool_call |-> name, content |-> content]

\* a prompt fixed when the agent is built instead of read from the store
static_agent_prompt(st, user_id) ==
    [namespace |-> Namespace(user_id, "prompts"), key |-> "response_prompt",
     value |-> initial_response_prompt]

\* a channel without a reducer: the update replaces the list
overwrite_messages(left, right) == right

\* messages: Annotated[list, add_messages]: updates with new ids are appended
add_messages(left, right) == left \o right

\* create_agent_prompt: the Item of the current response prompt
create_agent_prompt(st, user_id) ==
    Get(st, Namespace(user_id, "prompts"), "response_prompt")

\* what the model may answer: a final reply or a call of one tool
ModelReplies == {"final"} \cup ToolNames

\* the agent's graph runs its nodes at steps 0 .. RecursionLimit; a node due
\* at a later step raises GraphRecursionError instead
OutOfSteps(state) == state.steps > RecursionLimit

\* steps of the agent's graph left before its recursion limit
RemainingSteps(state) ==
    IF OutOfSteps(state) THEN 0 ELSE RecursionLimit - state.steps

\* an agent node that never gives up for lack of steps
NeverOutOfSteps(state, reply) == FALSE

\* the agent node stops with an apology instead of another tool call when the
\* steps left do not allow the tool node and the next agent node to run
MoreStepsNeeded(state, reply) ==
    reply \in ToolNames /\ RemainingSteps(state) < 2

MemoryQuery == [content |-> "contact_preference"]

\* a memory namespace that is not filled in from the run's configuration
shared_memory_namespace(langgraph_user_id) == Namespace("test_user", "collection")

\* namespace=("email_assistant", "{langgraph_user_id}", "collection") of the
\* two memory tools, filled in from the configuration of the run
memory_namespace(langgraph_user_id) == Namespace(langgraph_user_id, "collection")

\* agent node: prompt(state) | model
AgentStep(r) ==
    LET u == run[r].user
        ns == Namespace(u, "prompts")
        item == create_agent_prompt(store, u)
    IN
    /\ run[r].pc = "response_agent"
    /\ IF OutOfSteps(run[r])
       THEN /\ run' = [run EXCEPT ![r].pc = "failed",
                                  ![r].error = "GraphRecursionError"]
            /\ UNCHANGED lastGet
       ELSE
            /\ lastGet' = GetRecord(ns, "response_prompt", item)
            /\ IF item = None
               THEN \* None.value raises AttributeError
                    run' = [run EXCEPT ![r].pc = "failed", ![r].error = "AttributeError"]
               ELSE \E reply \in ModelReplies :
                      /\ reply = "manage_memory" =>
                            Len(store[Namespace(u, "collection")]) < MaxFacts
                      /\ run' = [run EXCEPT
                           ![r].system_prompt = item.value,
                           ![r].agent_calls = @ + 1,
                           ![r].steps = @ + 1,
                           ![r].messages =
                               add_messages(@,
                                   <<IF MoreStepsNeeded(run[r], reply)
                                     THEN AIMessage("none", "need_more_steps")
                                     ELSE IF reply = "final"
                                          THEN AIMessage("none", "reply")
                                          ELSE AIMessage(reply, "")>>),
                           ![r].outcome =
                               IF MoreStepsNeeded(run[r], reply) THEN "stalled"
                               ELSE IF reply = "final" THEN "replied" ELSE @,
                           ![r].pc =
                               IF MoreStepsNeeded(run[r], reply) \/ reply = "final"
                               THEN "END" ELSE "tools"]
    /\ UNCHANGED <<store, opt, written, lastSearch>>

\* a tools node that lets the exception of a tool through
raise_tool_errors == FALSE

\* ToolNode(tools) as create_react_agent builds it: an exception raised by a
\* tool is caught and returned to the model as the content of a ToolMessage
handle_tool_errors == TRUE

\* tools node: run the tool the last AI message asks for, append its output
ToolsStep(r) ==
    LET u == run[r].user
        name == run[r].messages[Len(run[r].messages)].tool_call
        ns == memory_namespace(u)
        key == MemoryKey(Len(store[ns]) + 1)
        found == Search(store, ns, MemoryQuery, SearchLimit)
        content ==
            IF name = "write_email" THEN "email_sent"
            ELSE IF name = "check_calendar_availability" THEN "available_times"
            ELSE IF name = "manage_memory" THEN "created_memory"
            ELSE IF found = <<>> THEN "no_memories" ELSE "memories_found"
    IN
    /\ run[r].pc = "tools"
    /\ IF OutOfSteps(run[r])
       THEN /\ run' = [run EXCEPT ![r].pc = "failed",
                                  ![r].error = "GraphRecursionError"]
            /\ UNCHANGED <<store, written, lastSearch>>
       ELSE \E raises \in BOOLEAN :
            IF raises
            THEN \* the tool raised: nothing was stored or searched
                 /\ UNCHANGED <<store, written, lastSearch>>
                 /\ IF handle_tool_errors
                    THEN run' = [run EXCEPT
                                   ![r].messages =
                                       add_messages(@, <<ToolMessage(name, "error")>>),
                                   ![r].tool_calls = @ + 1,
                                   ![r].tool_errors = @ + 1,
                                   ![r].steps = @ + 1,
                                   ![r].pc = "response_agent"]
                    ELSE run' = [run EXCEPT ![r].pc = "failed",
                                            ![r].error = "ToolException"]
            ELSE
            /\ run' = [run EXCEPT
                         ![r].messages = add_messages(@, <<ToolMessage(name, content)>>),
                         ![r].tool_calls = @ + 1,
                         ![r].steps = @ + 1,
                         ![r].pc = "response_agent"]
            /\ IF name = "manage_memory"
               THEN /\ store' = Put(store, ns, key, memory_content)
                    /\ written' = Wrote(written, ns, key, memory_content, 0)
                    /\ UNCHANGED lastSearch
               ELSE IF name = "search_memory"
               THEN /\ lastSearch' = SearchRecord(ns, MemoryQuery, SearchLimit, found)
                    /\ UNCHANGED <<store, written>>
               ELSE UNCHANGED <<store, written, lastSearch>>
    /\ UNCHANGED <<opt, lastGet>>


\* tool calls the model may put in one message: gpt-4o-mini is bound to the
\* tools with parallel tool calls left at their default
ToolBatches ==
    {<<"check_calendar_availability", "write_email">>,
     <<"write_email", "check_calendar_availability">>}

AIMessageCalls(tool_calls) ==
    [type |-> "ai", tool_call |-> "several", content |-> "",
     tool_calls |-> tool_calls]

\* agent node: the model answers with one message that calls several tools
AgentCallsTools(r) ==
    LET u == run[r].user
        ns == Namespace(u, "prompts")
        item == create_agent_prompt(store, u)
    IN
    /\ run[r].pc = "response_agent"
    /\ ~OutOfSteps(run[r])
    /\ item # None
    /\ \E calls \in ToolBatches :
         /\ ~MoreStepsNeeded(run[r], calls[1])
         /\ run' = [run EXCEPT
                      ![r].system_prompt = item.value,
                      ![r].agent_calls = @ + 1,
                      ![r].steps = @ + 1,
                      ![r].messages = add_messages(@, <<AIMessageCalls(calls)>>),
                      ![r].pending = calls,
                      ![r].pc = "tools_map"]
    /\ lastGet' = GetRecord(ns, "response_prompt", item)
    /\ UNCHANGED <<store, opt, written, lastSearch>>

\* tools node: executor.map hands every tool call of the message to the
\* thread pool; a worker takes up call i
ToolStart(r, i) ==
    /\ run[r].pc = "tools_map"
    /\ i \in 1..Len(run[r].pending)
    /\ i \notin run[r].in_progress \cup run[r].observed
    /\ run' = [run EXCEPT ![r].in_progress = @ \cup {i}]
    /\ UNCHANGED <<store, opt, written, lastGet, lastSearch>>

\* the worker's tool returned its observation
ToolFinish(r, i) ==
    /\ run[r].pc = "tools_map"
    /\ i \in run[r].in_progress
    /\ run' = [run EXCEPT ![r].in_progress = @ \ {i},
                           ![r].observed = @ \cup {i}]
    /\ UNCHANGED <<store, opt, written, lastGet, lastSearch>>

Observation(name) ==
    IF name = "write_email" THEN "email_sent" ELSE "available_times"

\* every call has returned: the tools node hands back the ToolMessages in
\* the order of the calls
ToolsReturn(r) ==
    LET calls == run[r].pending IN
    /\ run[r].pc = "tools_map"
    /\ run[r].observed = 1..Len(calls)
    /\ run' = [run EXCEPT
                 ![r].messages =
                     add_messages(@, [i \in 1..Len(calls) |->
                                        ToolMessage(calls[i], Observation(calls[i]))]),
                 ![r].tool_calls = @ + Len(calls),
                 ![r].steps = @ + 1,
                 ![r].pending = <<>>,
                 ![r].observed = {},
                 ![r].pc = "response_agent"]
    /\ UNCHANGED <<store, opt, written, lastGet, lastSearch>>

---------------------------------------------------------------------------
(* Procedural optimizer: optimize_prompts(feedback, config, store) *)

Feedbacks == {"feedback_api_docs"}

PromptEntry(name, prompt) == [name |-> name, prompt |-> prompt]

\* a prompt as the optimizer may hand it back: rewritten or as it was
Revisions(prompt) == {prompt, Append(prompt, revised_paragraph)}

\* what optimizer.invoke may return: a list of named prompts, complete or not
OptimizerResults(triage_prompt, response_prompt) ==
    {<<PromptEntry("triage", t), PromptEntry("response", p)>> :
        t \in Revisions(triage_prompt), p \in Revisions(response_prompt)}
    \cup {<<PromptEntry("triage", Append(triage_prompt, revised_paragraph))>>,
          <<PromptEntry("response", Append(response_prompt, revised_paragraph))>>,
          <<>>}

\* the names of the prompts a result holds
Names(result) == {result[i].name : i \in 1..Len(result)}

HasEntry(result, name) == \E i \in 1..Len(result) : result[i].name = name

\* the first prompt of the result, whatever its name
FirstPrompt(result, name) == result[1].prompt

\* next(p["prompt"] for p in result if p["name"] == name)
NextPrompt(result, name) ==
    result[CHOOSE i \in 1..Len(result) :
              /\ result[i].name = name
              /\ \A j \in 1..(i - 1) : result[j].name # name].prompt

\* an except branch that leaves the prompt as it is
Unamended(prompt) == prompt

\* the except branch: the fixed notes appended to the current prompts
FallbackTriage(triage_prompt) == Append(triage_prompt, triage_note)
FallbackResponse(response_prompt) == Append(response_prompt, response_note)

\* the except branch as a function of the names in its scope: the pair of
\* prompts it assigns
fallback(triage_prompt, response_prompt, feedback) ==
    <<FallbackTriage(triage_prompt), FallbackResponse(response_prompt)>>

\* triage_prompt = store.get(..., "triage_prompt").value
OptGetTriage(o, u, feedback) ==
    LET ns == Namespace(u, "prompts")
        item == Get(store, ns, "triage_prompt")
    IN
    /\ opt[o].pc = "idle"
    /\ lastGet' = GetRecord(ns, "triage_prompt", item)
    /\ opt' = [opt EXCEPT ![o] =
                 [IdleOpt EXCEPT
                    !.user = u, !.feedback = feedback,
                    !.pc = IF item = None THEN "raised" ELSE "get_response",
                    !.error = IF item = None THEN "AttributeError" ELSE "none",
                    !.triage_prompt = IF item = None THEN <<>> ELSE item.value]]
    /\ UNCHANGED <<store, run, written, lastSearch>>

\* response_prompt = store.get(..., "response_prompt").value
OptGetResponse(o) ==
    LET ns == Namespace(opt[o].user, "prompts")
        item == Get(store, ns, "response_prompt")
    IN
    /\ opt[o].pc = "get_response"
    /\ lastGet' = GetRecord(ns, "response_prompt", item)
    /\ opt' = [opt EXCEPT
                 ![o].pc = IF item = None THEN "raised" ELSE "invoke",
                 ![o].error = IF item = None THEN "AttributeError" ELSE "none",
                 ![o].response_prompt = IF item = None THEN <<>> ELSE item.value]
    /\ UNCHANGED <<store, run, written, lastSearch>>

\* the try block and its except branch
OptInvoke(o) ==
    /\ opt[o].pc = "invoke"
    /\ \E raises \in BOOLEAN :
       \E result \in OptimizerResults(opt[o].triage_prompt, opt[o].response_prompt) :
         IF ~raises /\ HasEntry(result, "triage") /\ HasEntry(result, "response")
         THEN opt' = [opt EXCEPT
                        ![o].pc = "put_triage", ![o].path = "optimizer",
                        ![o].names = Names(result),
                        ![o].improved_triage_prompt = NextPrompt(result, "triage"),
                        ![o].improved_response_prompt = NextPrompt(result, "response")]
         ELSE opt' = [opt EXCEPT
                        ![o].pc = "put_triage", ![o].path = "fallback",
                        ![o].raised = raises,
                        ![o].names = IF raises THEN {} ELSE Names(result),
                        ![o].improved_triage_prompt =
                            FallbackTriage(opt[o].triage_prompt),
                        ![o].improved_response_prompt =
                            FallbackResponse(opt[o].response_prompt)]
    /\ UNCHANGED <<store, run, written, lastGet, lastSearch>>

\* a first put that stores the response prompt
OptPutResponseFirst(o) ==
    LET ns == Namespace(opt[o].user, "prompts") IN
    /\ opt[o].pc = "put_triage"
    /\ store' = Put(store, ns, "response_prompt", opt[o].improved_response_prompt)
    /\ written' = Wrote(written, ns, "response_prompt", opt[o].improved_response_prompt, o)
    /\ opt' = [opt EXCEPT ![o].pc = "put_response"]
    /\ UNCHANGED <<run, lastGet, lastSearch>>

\* store.put(..., "triage_prompt", improved_triage_prompt)
OptPutTriage(o) ==
    LET ns == Namespace(opt[o].user, "prompts") IN
    /\ opt[o].pc = "put_triage"
    /\ store' = Put(store, ns, "triage_prompt", opt[o].improved_triage_prompt)
    /\ written' = Wrote(written, ns, "triage_prompt", opt[o].improved_triage_prompt, o)
    /\ opt' = [opt EXCEPT ![o].pc = "put_response"]
    /\ UNCHANGED <<run, lastGet, lastSearch>>

\* a last step that also files the feedback in the prompts namespace
OptPutResponseAndFeedback(o) ==
    LET ns == Namespace(opt[o].user, "prompts") IN
    /\ opt[o].pc = "put_response"
    /\ store' = Put(Put(store, ns, "response_prompt", opt[o].improved_response_prompt),
                    ns, "feedback", <<opt[o].feedback>>)
    /\ written' = Wrote(written, ns, "response_prompt", opt[o].improved_response_prompt, o)
    /\ opt' = [opt EXCEPT ![o].pc = "returned"]
    /\ UNCHANGED <<run, lastGet, lastSearch>>

\* store.put(..., "response_prompt", improved_response_prompt); return
OptPutResponse(o) ==
    LET ns == Namespace(opt[o].user, "prompts") IN
    /\ opt[o].pc = "put_response"
    /\ store' = Put(store, ns, "response_prompt", opt[o].improved_response_prompt)
    /\ written' = Wrote(written, ns, "response_prompt", opt[o].improved_response_prompt, o)
    /\ opt' = [opt EXCEPT ![o].pc = "returned"]
    /\ UNCHANGED <<run, lastGet, lastSearch>>

---------------------------------------------------------------------------
(* Specification *)

\* the notebook's own writes, for the identities given
StoreWrites(users, keys) ==
    \/ \E u \in users : PutInitialTriagePrompt(u)
    \/ \E u \in users : PutInitialResponsePrompt(u)
    \/ \E u \in users, key \in keys : PutExample(u, key)

RunSteps(users) ==
    \/ \E r \in Runs, u \in users, email \in Emails : StartRun(r, u, email)
    \/ \E r \in Runs : TriageRead(r)
    \/ \E r \in Runs : TriageInvoke(r)
    \/ \E r \in Runs : Route(r)
    \/ \E r \in Runs : AgentStep(r)
    \/ \E r \in Runs : ToolsStep(r)

OptSteps(users, feedbacks) ==
    \/ \E o \in Opts, u \in users, feedback \in feedbacks :
          OptGetTriage(o, u, feedback)
    \/ \E o \in Opts : OptGetResponse(o)
    \/ \E o \in Opts : OptInvoke(o)
    \/ \E o \in Opts : OptPutTriage(o)
    \/ \E o \in Opts : OptPutResponse(o)

\* one identity: its writes, its runs and its optimizer calls interleaved
Next ==
    \/ StoreWrites({"test_user"}, ExampleKeys)
    \/ RunSteps({"test_user"})
    \/ OptSteps({"test_user"}, Feedbacks)

Spec == Init /\ [][Next]_vars

\* two identities: the writes and the runs of both interleaved
NextUsers == StoreWrites(Users, {"spam_example"}) \/ RunSteps(Users)

SpecUsers == Init /\ [][NextUsers]_vars

\* the stream of a run has returned or raised; the caller may start the next
\* run on the same store
FinishRun(r) ==
    /\ run[r].pc \in {"END", "failed"}
    /\ run' = [run EXCEPT ![r] = IdleRun]
    /\ UNCHANGED <<store, opt, written, lastGet, lastSearch>>

\* runs one after the other on the same store, as the notebook makes them
NextRuns ==
    \/ Next
    \/ \E r \in Runs : FinishRun(r)

SpecRuns == Init /\ [][NextRuns]_vars

\* feedback texts a caller of optimize_prompts may pass
FeedbackTexts == {"feedback_api_docs", "feedback_meeting_requests"}

\* optimize_prompts called with either feedback, for either identity, on
\* prompts that are initialised or not
NextFeedback ==
    \/ \E u \in Users : PutInitialTriagePrompt(u)
    \/ \E u \in Users : PutInitialResponsePrompt(u)
    \/ OptSteps(Users, FeedbackTexts)

SpecFeedback == Init /\ [][NextFeedback]_vars

\* runs and optimizer calls of two identities on one store
NextIdentities ==
    \/ \E u \in Users : PutInitialTriagePrompt(u)
    \/ \E u \in Users : PutInitialResponsePrompt(u)
    \/ RunSteps(Users)
    \/ OptSteps(Users, Feedbacks)

SpecIdentities == Init /\ [][NextIdentities]_vars

\* optimize_prompts calls of one identity whose reads and writes interleave:
\* one call more than Opts holds
Calls == 1..(MaxOpts + 1)

InitCalls ==
    /\ store = [ns \in Namespaces |-> <<>>]
    /\ run = [r \in Runs |-> IdleRun]
    /\ opt = [o \in Calls |-> IdleOpt]
    /\ written = [ns \in Namespaces |-> [k \in KeysOf(ns) |-> None]]
    /\ lastGet = None
    /\ lastSearch = None

NextCalls ==
    \/ PutInitialTriagePrompt("test_user")
    \/ PutInitialResponsePrompt("test_user")
    \/ \E o \in Calls, feedback \in Feedbacks : OptGetTriage(o, "test_user", feedback)
    \/ \E o \in Calls : OptGetResponse(o)
    \/ \E o \in Calls : OptInvoke(o)
    \/ \E o \in Calls : OptPutTriage(o)
    \/ \E o \in Calls : OptPutResponse(o)

SpecCalls == InitCalls /\ [][NextCalls]_vars

\* runs whose model may call several tools in one message
NextTools ==
    \/ PutInitialTriagePrompt("test_user")
    \/ PutInitialResponsePrompt("test_user")
    \/ RunSteps({"test_user"})
    \/ \E r \in Runs : AgentCallsTools(r)
    \/ \E r \in Runs, i \in 1..2 : ToolStart(r, i)
    \/ \E r \in Runs, i \in 1..2 : ToolFinish(r, i)
    \/ \E r \in Runs : ToolsReturn(r)

SpecTools == Init /\ [][NextTools]_vars

\* limits a caller of store.search may pass
Limits == {1, 2, SearchLimit}

\* the examples are stored before the first search reads them
NoSearchYet == lastSearch = None

\* episodic memory of one identity: examples are stored, then searched with
\* a limit and read by the triage node of a run
NextExamples ==
    \/ PutInitialTriagePrompt("test_user")
    \/ \E key \in SampleKeys, eg \in SampleExamples :
          NoSearchYet /\ PutSample("test_user", key, eg)
    \/ \E limit \in Limits : SearchCall("test_user", email_input, limit)
    \/ \E r \in Runs : StartRun(r, "test_user", email_input)
    \/ \E r \in Runs : TriageRead(r)

SpecExamples == Init /\ [][NextExamples]_vars

---------------------------------------------------------------------------
(* Properties *)

PromptsOf(u) == Namespace(u, "prompts")

\* a step in which process r or o performed a store.get
RunGetStep(r) ==
    /\ run[r].pc \in {"triage", "response_agent"}
    /\ run'[r] # run[r]
OptGetStep(o) ==
    /\ opt[o].pc \in {"idle", "get_response"}
    /\ opt'[o] # opt[o]
GetStep == (\E r \in Runs : RunGetStep(r)) \/ (\E o \in Opts : OptGetStep(o))

\* C1: round trip.  Whenever a get is made on a (namespace, key) to which
\* a put was made before, the get returns an Item whose value is the value
\* of the most recent put to that (namespace, key).
RoundTrip ==
    [][GetStep =>
         LET g == lastGet' IN
         written[g.namespace][g.key] # None =>
            /\ g.item # None
            /\ g.item.value = written[g.namespace][g.key].value]_vars

\* a run read back the triage prompt that optimize_prompts had put over the
\* initial one
RoundTripWitness ==
    /\ lastGet # None
    /\ lastGet.key = "triage_prompt"
    /\ lastGet.item # None
    /\ lastGet.item.value = FallbackTriage(initial_triage_prompt)
    /\ \E r \in Runs : run[r].pc = "triage_llm"

\* C2: namespace isolation.  Every get and every search returns only
\* records of the namespace that was passed, and each record it returns was
\* put into that very namespace: a put to another namespace never shows.
NamespaceIsolation ==
    /\ (lastGet # None /\ lastGet.item # None) =>
          /\ lastGet.item.namespace = lastGet.namespace
          /\ lastGet.item.key = lastGet.key
          /\ written[lastGet.namespace][lastGet.key] # None
    /\ lastSearch # None =>
          \A i \in 1..Len(lastSearch.results) :
             /\ lastSearch.results[i].namespace = lastSearch.namespace
             /\ written[lastSearch.namespace][lastSearch.results[i].key] # None

\* an example was put for other_user, and test_user's search of its own
\* examples came back empty
NamespaceIsolationWitness ==
    /\ store[Namespace("other_user", "examples")] # <<>>
    /\ store[Namespace("other_user", "prompts")] # <<>>
    /\ lastSearch # None
    /\ lastSearch.namespace = Namespace("test_user", "examples")
    /\ lastSearch.results = <<>>

\* the response agent and the tools were never invoked in run r
NeverResponded(r) ==
    /\ run[r].agent_calls = 0
    /\ run[r].tool_calls = 0
    /\ run[r].messages = run[r].input_messages
    /\ run[r].pc \notin {"response_agent", "tools"}

\* C3: routing determinism.  The step out of triage goes to the response
\* agent when the classification is respond and to END when it is ignore
\* or notify; a run classified ignore or notify never invokes the response
\* agent or a tool.
RoutingDeterminism ==
    [][\A r \in Runs :
         /\ (run[r].pc = "route" /\ run'[r].pc # "route") =>
               /\ run[r].triage_result = "respond" => run'[r].pc = "response_agent"
               /\ run[r].triage_result \in {"ignore", "notify"} => run'[r].pc = "END"
         /\ run'[r].triage_result \in {"ignore", "notify"} => NeverResponded(r)']_vars

\* a run classified notify has ended without a response
RoutingDeterminismWitness ==
    \E r \in Runs :
       /\ run[r].triage_result = "notify"
       /\ run[r].pc = "END"
       /\ run[r].agent_calls = 0

\* every reply of the model in run r so far asked for a tool
AlwaysTools(r) ==
    /\ run[r].agent_calls >= 1
    /\ \A i \in 1..Len(run[r].messages) :
          run[r].messages[i].type = "ai" => run[r].messages[i].content # "reply"

\* C4: bounded loop.  A response-agent run whose model asks for a tool at
\* every step stays within the recursion limit (at most RecursionLimit
\* model calls and every node within the steps 0 .. RecursionLimit), does
\* not fail, and ends stalled: its last message is the agent's
\* need-more-steps message and the transcript so far is kept.
BoundedLoop ==
    \A r \in Runs :
       AlwaysTools(r) =>
          /\ run[r].agent_calls <= RecursionLimit
          /\ run[r].agent_calls + run[r].tool_calls <= RecursionLimit + 1
          /\ run[r].pc # "failed"
          /\ run[r].pc \in {"response_agent", "tools"} => ~OutOfSteps(run[r])
          /\ run[r].pc = "END" =>
                /\ run[r].outcome = "stalled"
                /\ run[r].messages[Len(run[r].messages)] =
                      AIMessage("none", "need_more_steps")
                /\ Len(run[r].messages) = run[r].agent_calls + run[r].tool_calls

\* a run that only ever asked for tools has ended stalled after a tool ran
BoundedLoopWitness ==
    \E r \in Runs :
       /\ AlwaysTools(r)
       /\ run[r].pc = "END"
       /\ run[r].outcome = "stalled"
       /\ run[r].tool_calls >= 1

\* triage has handed back a result in run r
TriageCompleted(r) == run[r].pc \in {"route", "response_agent", "tools", "END"}

\* C10: the triage classifier returns exactly one of ignore, notify,
\* respond, or fails: whenever triage has completed, triage_result is one of
\* the three labels, and a run whose classification did not validate has
\* failed without a triage_result.
TriageLabel ==
    \A r \in Runs :
       /\ TriageCompleted(r) => run[r].triage_result \in Labels
       /\ run[r].triage_result # "unset" => run[r].triage_result \in Labels
       /\ run[r].error = "ValidationError" =>
             run[r].pc = "failed" /\ run[r].triage_result = "unset"

\* triage completed with the label ignore
TriageLabelWitness ==
    \E r \in Runs :
       /\ run[r].pc = "route"
       /\ run[r].triage_result = "ignore"

\* the optimizer calls that returned before run r started and whose write of
\* key is still the last one
UpdatedBy(r, key) ==
    {o \in run[r].started_after :
        /\ opt[o].user = run[r].user
        /\ written[PromptsOf(run[r].user)][key] # None
        /\ written[PromptsOf(run[r].user)][key].by = o}

\* C5: feedback always has effect.  When a call of optimize_prompts has
\* returned, at least one of the two stored prompts of its identity differs
\* from what the call read before optimizing, whatever the optimizer did.
FeedbackHasEffect ==
    \A o \in Opts :
       opt[o].pc = "returned" =>
          \/ Get(store, PromptsOf(opt[o].user), "triage_prompt").value
                # opt[o].triage_prompt
          \/ Get(store, PromptsOf(opt[o].user), "response_prompt").value
                # opt[o].response_prompt

\* C6: after optimize_prompts has returned, a run of the same identity that
\* starts afterwards gives the triage classifier the updated triage prompt
\* and the response agent, at every step, the updated response prompt, as
\* long as no later write replaced them.
SubsequentRunsUpdated ==
    [][\A r \in Runs :
         /\ (run[r].pc = "triage" /\ run'[r].pc # "triage") =>
               \A o \in UpdatedBy(r, "triage_prompt") :
                  /\ run'[r].pc = "triage_llm" \/ run'[r].error = "KeyError"
                  /\ run'[r].pc = "triage_llm" =>
                        run'[r].current_prompt_template
                           = opt[o].improved_triage_prompt
         /\ (run[r].pc = "response_agent" /\ run'[r].pc # "response_agent") =>
               \A o \in UpdatedBy(r, "response_prompt") :
                  /\ run'[r].agent_calls = run[r].agent_calls + 1
                  /\ run'[r].system_prompt = opt[o].improved_response_prompt]_vars

\* a run started after an optimizer call that rewrote both prompts has used
\* both rewritten prompts
SubsequentRunsUpdatedWitness ==
    \E r \in Runs, o \in Opts :
       /\ o \in run[r].started_after
       /\ opt[o].improved_triage_prompt # opt[o].triage_prompt
       /\ opt[o].improved_response_prompt # opt[o].response_prompt
       /\ run[r].agent_calls >= 1
       /\ run[r].current_prompt_template = opt[o].improved_triage_prompt
       /\ run[r].system_prompt = opt[o].improved_response_prompt

\* C7: no mid-run prompt hot-swap.  Every model call of a run uses the
\* prompt values that were stored when the run started: the triage call the
\* triage prompt, each step of the response agent the response prompt.
NoHotSwap ==
    \A r \in Runs :
       /\ (run[r].start_triage # None /\ TriageCompleted(r)) =>
             run[r].current_prompt_template = run[r].start_triage.value
       /\ (run[r].start_response # None /\ run[r].agent_calls >= 1) =>
             run[r].system_prompt = run[r].start_response.value

\* C8: a missing triage_prompt or response_prompt is recovered by a built-in
\* default: no run fails on the absent prompt.
DefaultPromptRecovery ==
    \A r \in Runs :
       ~(run[r].pc = "failed" /\ run[r].error = "AttributeError")

\* C9: optimize_prompts never propagates a failure: no call ends by raising,
\* and a call that has returned wrote both prompts.
NeverPropagates ==
    \A o \in Opts :
       /\ opt[o].pc # "raised"
       /\ opt[o].pc = "returned" =>
             /\ Get(store, PromptsOf(opt[o].user), "triage_prompt") # None
             /\ Get(store, PromptsOf(opt[o].user), "response_prompt") # None

\* C11: when llm_router does not return a valid label the classification is
\* retried exactly once with the same prompt: a run that failed on the
\* classification has called llm_router twice, and a run that got its label
\* has called it at most twice.
ClassificationRetried ==
    \A r \in Runs :
       /\ run[r].error = "ValidationError" => run[r].router_calls = 2
       /\ TriageCompleted(r) => run[r].router_calls \in {1, 2}

\* the records of namespace ns stored under key
RecordsUnder(ns, key) == {i \in 1..Len(store[ns]) : store[ns][i].key = key}

SearchStep == lastSearch' # lastSearch

\* the triage node of run r read its prompt and examples in this step
TriageReadStep(r) ==
    /\ run[r].pc = "triage"
    /\ run'[r].pc # "triage"
    /\ get_triage_prompt(store, run[r].user) # None

RanksBefore(ns, query, i, j) ==
    \/ Score(query, store[ns][i].value) > Score(query, store[ns][j].value)
    \/ /\ Score(query, store[ns][i].value) = Score(query, store[ns][j].value)
       /\ i < j

Positions(f, tok) == {p \in 1..Len(f) : f[p] = tok}

\* the k-th smallest element of a set of positions
Nth(S, k) == CHOOSE p \in S : Cardinality({q \in S : q < p}) = k - 1

\* C15: format_few_shot_examples gives the empty string for no examples;
\* otherwise one block per example, in the order of the input, the blocks
\* separated by a blank line: the k-th "From:" and the k-th
\* "Classification:" carry the sender and the label of the k-th example,
\* the text starts with a block and every later block follows a blank line
\* after the label of the block before.
FormatBlocks ==
    [][\A r \in Runs :
         TriageReadStep(r) =>
            LET ex == lastSearch'.results
                f == run'[r].formatted_examples
                from == Positions(f, "From: ")
                cls == Positions(f, "Classification: ")
            IN
            /\ run'[r].pc = "triage_llm"
            /\ ex = <<>> => f = <<>>
            /\ Cardinality(from) = Len(ex)
            /\ Cardinality(cls) = Len(ex)
            /\ \A k \in 1..Len(ex) :
                  /\ f[Nth(from, k) + 1] = ex[k].value.email.author
                  /\ f[Nth(cls, k) + 1] = ex[k].value.label
                  /\ Nth(from, k) < Nth(cls, k)
                  /\ Nth(from, k) = IF k = 1 THEN 1 ELSE Nth(cls, k - 1) + 3
                  /\ k > 1 => f[Nth(from, k) - 1] = BlankLine
            /\ ex # <<>> => Nth(cls, Len(ex)) + 1 = Len(f)]_vars

\* a fragment of three blocks whose examples differ
FormatBlocksWitness ==
    \E r \in Runs :
       /\ run[r].pc = "triage_llm"
       /\ Cardinality(Positions(run[r].formatted_examples, "From: ")) = 3
       /\ run[r].formatted_examples[2] # 
             run[r].formatted_examples[
                Nth(Positions(run[r].formatted_examples, "From: "), 3) + 1]

\* the pieces of f from position a to position b
Piece(f, a, b) == SubSeq(f, a, b)

\* C16: every block of the fragment holds the example's sender, its
\* subject, the first 300 characters of its body and no more, and its
\* label; when the example that search returns first is labelled respond,
\* the first block carries the label respond.
FormatFields ==
    [][\A r \in Runs :
         TriageReadStep(r) =>
            LET ex == lastSearch'.results
                f == run'[r].formatted_examples
                from == Positions(f, "From: ")
                body == Positions(f, "Body: ")
                dots == Positions(f, "...")
                cls == Positions(f, "Classification: ")
            IN
            /\ Cardinality(body) = Len(ex)
            /\ Cardinality(dots) = Len(ex)
            /\ \A k \in 1..Len(ex) :
                  LET email == ex[k].value.email
                      b == Nth(body, k)
                      n == IF Len(email.email_thread) < BodyLimit
                           THEN Len(email.email_thread) ELSE BodyLimit
                  IN
                  /\ Piece(f, Nth(from, k), Nth(body, k)) =
                        <<"From: ", email.author, Newline,
                          "Subject: ", email.subject, Newline, "Body: ">>
                  /\ Nth(dots, k) = b + n + 1
                  /\ Piece(f, b + 1, b + n) = [i \in 1..n |-> email.email_thread[i]]
                  /\ Piece(f, Nth(dots, k), Nth(cls, k) + 1) =
                        <<"...", BlankLine, "Classification: ", ex[k].value.label>>
            /\ (ex # <<>> /\ ex[1].value.label = "respond") =>
                  f[Nth(cls, 1) + 1] = "respond"]_vars

\* the first block renders an example labelled respond whose body is longer
\* than 300 characters: 300 of them are kept
FormatFieldsWitness ==
    \E r \in Runs :
       LET f == run[r].formatted_examples IN
       /\ run[r].pc = "triage_llm"
       /\ lastSearch # None
       /\ lastSearch.results # <<>>
       /\ Len(lastSearch.results[1].value.email.email_thread) > BodyLimit
       /\ f # <<>>
       /\ Nth(Positions(f, "..."), 1) = 7 + BodyLimit + 1
       /\ f[Nth(Positions(f, "Classification: "), 1) + 1] = "respond"

\* every tool call of the history is followed by its output, every output
\* follows its call, and the outputs are as many as the tools that ran
CallsInOrder(r) ==
    LET m == run[r].messages IN
    /\ \A i \in 1..Len(m) :
          /\ m[i].type = "tool" =>
                /\ i > 1
                /\ m[i - 1].type = "ai"
                /\ m[i - 1].tool_call = m[i].tool_call
          /\ (m[i].type = "ai" /\ m[i].tool_call # "none" /\ i < Len(m)) =>
                /\ m[i + 1].type = "tool"
                /\ m[i + 1].tool_call = m[i].tool_call
    /\ Cardinality({i \in 1..Len(m) : m[i].type = "tool"}) = run[r].tool_calls
    /\ Cardinality({i \in 1..Len(m) : m[i].type = "ai"}) = run[r].agent_calls

InitialPrompt(key) ==
    IF key = "triage_prompt" THEN initial_triage_prompt ELSE initial_response_prompt

\* the optimizer calls for identity u that have executed their put of key
HavePut(u, key) ==
    {o \in Opts :
        /\ opt[o].user = u
        /\ opt[o].pc \in (IF key = "triage_prompt"
                          THEN {"put_response", "returned"} ELSE {"returned"})}

\* the complete values that have been handed to store.put for a prompt key
PutValues(u, key) ==
    {InitialPrompt(key)}
    \cup {IF key = "triage_prompt" THEN opt[o].improved_triage_prompt
          ELSE opt[o].improved_response_prompt : o \in HavePut(u, key)}

ReadYourWrites ==
    [][/\ GetStep =>
            LET g == lastGet' IN
            /\ (g.item = None) = (written[g.namespace][g.key] = None)
            /\ g.item # None => g.item.value = written[g.namespace][g.key].value
       /\ SearchStep =>
            LET s == lastSearch' IN
            /\ \A k \in 1..Len(s.results) :
                  s.results[k].value = written[s.namespace][s.results[k].key].value
            /\ \A key \in KeysOf(s.namespace) :
                  written[s.namespace][key] # None =>
                     \/ Len(s.results) = s.limit
                     \/ \E k \in 1..Len(s.results) : s.results[k].key = key]_vars

\* a run that stored nothing itself finds, through search_memory, the memory
\* an earlier run stored with manage_memory
ReadYourWritesWitness ==
    \E r \in Runs :
       /\ Len(run[r].messages) >= 2
       /\ run[r].messages[2] = ToolMessage("search_memory", "memories_found")
       /\ \A i \in 1..Len(run[r].messages) :
             run[r].messages[i].tool_call # "manage_memory"
       /\ lastSearch # None
       /\ lastSearch.namespace = Namespace(run[r].user, "collection")
       /\ lastSearch.results # <<>>

\* the email of run r has every field the placeholders of the triage prompt
\* name: {author}, {to}, {subject}, {email_thread}
EmailComplete(r) ==
    \A f \in {"author", "to", "subject", "email_thread"} :
       f \in DOMAIN run[r].email_input

\* C21: a field of the incoming email missing at the template substitution
\* fails the run with KeyError, an error other than the classification's
\* ValidationError, before llm_router is called and without a retry: such a
\* run never reaches the classification and makes no oracle call; a run that
\* failed with ValidationError did call llm_router.
TemplateErrorFirst ==
    \A r \in Runs :
       /\ (run[r].pc # "idle" /\ ~EmailComplete(r)) =>
             /\ run[r].pc \in {"triage", "failed"}
             /\ run[r].router_calls = 0
             /\ run[r].agent_calls = 0
             /\ run[r].triage_result = "unset"
             /\ run[r].pc = "failed" => run[r].error \in {"KeyError", "AttributeError"}
       /\ run[r].error = "KeyError" =>
             /\ run[r].pc = "failed"
             /\ ~EmailComplete(r)
             /\ run[r].router_calls = 0
       /\ run[r].error = "ValidationError" => run[r].router_calls >= 1

\* a run whose email lacks a field failed at the substitution, with the
\* prompt present and the examples already searched
TemplateErrorFirstWitness ==
    \E r \in Runs :
       /\ run[r].pc = "failed"
       /\ run[r].error = "KeyError"
       /\ run[r].email_input = email_without_to
       /\ lastSearch # None
       /\ lastSearch.namespace = Namespace(run[r].user, "examples")

\* the state of the run's graph a position belongs to: the triage node with
\* its conditional edge, the response agent node, or the end
Phase(pc) ==
    IF pc \in {"triage", "triage_llm", "route"} THEN "TRIAGE"
    ELSE IF pc \in {"response_agent", "tools"} THEN "RESPOND"
    ELSE IF pc = "END" THEN "DONE"
    ELSE pc

\* C22: a run is in TRIAGE (where it starts), RESPOND or DONE, and moves only
\* from TRIAGE to RESPOND, from TRIAGE to DONE and from RESPOND to DONE:
\* RESPOND is entered from TRIAGE only, once triage has given its result,
\* nothing leaves DONE and nothing leads back to TRIAGE.  (A run that raises
\* leaves the graph from TRIAGE or RESPOND.)
RunStateMachine ==
    [][\A r \in Runs :
         LET from == Phase(run[r].pc)
             to == Phase(run'[r].pc)
         IN
         /\ from = "idle" => to \in {"idle", "TRIAGE"}
         /\ from = "TRIAGE" => to \in {"TRIAGE", "RESPOND", "DONE", "failed"}
         /\ from = "RESPOND" => to \in {"RESPOND", "DONE", "failed"}
         /\ from = "DONE" => run'[r] = run[r]
         /\ from = "failed" => run'[r] = run[r]
         /\ (from = "TRIAGE" /\ to \in {"RESPOND", "DONE"}) =>
               /\ run[r].pc = "route"
               /\ run[r].triage_result \in Labels
               /\ run[r].router_calls = 1
         /\ (from = "RESPOND" /\ to = "DONE") =>
               run'[r].outcome \in {"replied", "stalled"}]_vars

\* a run went from TRIAGE through RESPOND to DONE with a single model call
RunStateMachineWitness ==
    \E r \in Runs :
       /\ run[r].pc = "END"
       /\ run[r].triage_result = "respond"
       /\ run[r].agent_calls = 1
       /\ run[r].tool_calls = 0

\* C23: every run that has its classification reaches DONE: none ends by
\* raising, neither right after triage (ignore, notify) nor in the response
\* agent loop (respond); a run that stopped is at END.
RunsReachDone ==
    \A r \in Runs :
       run[r].triage_result \in Labels => run[r].pc # "failed"

\* a respond run that the response agent finished
RunsReachDoneWitness ==
    \E r \in Runs :
       /\ run[r].triage_result = "respond"
       /\ run[r].pc = "END"
       /\ run[r].agent_calls >= 1

\* a step of the triage node of run r, whether it goes on or raises
TriageStep(r) ==
    /\ run[r].pc \in {"triage", "triage_llm"}
    /\ run'[r] # run[r]

\* C24: the triage classifier never mutates the store: over every step of
\* the triage node, successful or failed, the store after it equals the store
\* before it.
TriageKeepsStore ==
    [][\A r \in Runs : TriageStep(r) => store' = store]_vars

\* triage has classified an item on a store that holds a prompt and examples
TriageKeepsStoreWitness ==
    \E r \in Runs :
       /\ run[r].pc = "route"
       /\ store[Namespace(run[r].user, "examples")] # <<>>
       /\ store[Namespace(run[r].user, "prompts")] # <<>>

\* a step of run r: its start or one of its nodes
RunStep(r) == run'[r] # run[r]

\* the step of run r is the memory-management tool storing a fact
ManageMemoryStep(r) ==
    /\ run[r].pc = "tools"
    /\ run[r].messages[Len(run[r].messages)].tool_call = "manage_memory"

\* C25: no step of an orchestration run (triage, routing, response agent,
\* any tool) changes a record of a prompts namespace; the only namespace a
\* run step changes is the collection namespace of the run's own identity,
\* and only the memory-management tool changes it.
RunsKeepPrompts ==
    [][\A r \in Runs : RunStep(r) =>
          \A ns \in Namespaces :
             /\ ns[3] = "prompts" => store'[ns] = store[ns]
             /\ store'[ns] # store[ns] =>
                   /\ ns = Namespace(run[r].user, "collection")
                   /\ ManageMemoryStep(r)]_vars

\* a run of the second identity stored a fact while the first identity has
\* its prompt
RunsKeepPromptsWitness ==
    \E r \in Runs :
       /\ run[r].user = "other_user"
       /\ store[Namespace("other_user", "collection")] # <<>>
       /\ store[Namespace("test_user", "prompts")] # <<>>
       /\ store[Namespace("other_user", "prompts")] # <<>>

\* the oracle may have returned, for the current prompts, a complete result
\* that names triage_new as triage and response_new as response
OracleReturned(triage_prompt, response_prompt, triage_new, response_new) ==
    \E result \in OptimizerResults(triage_prompt, response_prompt) :
       /\ \E i \in 1..Len(result) :
             result[i].name = "triage" /\ result[i].prompt = triage_new
       /\ \E i \in 1..Len(result) :
             result[i].name = "response" /\ result[i].prompt = response_new

\* the one record that namespace ns of store st holds under key has this value
SoleValue(st, ns, key, value) ==
    /\ Cardinality({i \in 1..Len(st[ns]) : st[ns][i].key = key}) = 1
    /\ \A i \in 1..Len(st[ns]) : st[ns][i].key = key => st[ns][i].value = value

\* C26: on oracle success with a complete result optimize_prompts stores the
\* oracle's triage prompt under triage_prompt and the oracle's response prompt
\* under response_prompt in the prompts namespace of the identity; each put
\* overwrites, so the key holds the new value alone and the prior version is
\* not in the store any more.
OptimizerStoresRevised ==
    [][\A o \in Opts :
          LET ns == PromptsOf(opt[o].user) IN
          /\ (opt[o].pc = "invoke" /\ opt'[o].path = "optimizer") =>
                OracleReturned(opt[o].triage_prompt, opt[o].response_prompt,
                               opt'[o].improved_triage_prompt,
                               opt'[o].improved_response_prompt)
          /\ (opt[o].pc = "put_triage" /\ opt'[o].pc = "put_response"
                 /\ opt[o].path = "optimizer") =>
                /\ SoleValue(store', ns, "triage_prompt",
                             opt[o].improved_triage_prompt)
                /\ Len(store'[ns]) = Len(store[ns])
          /\ (opt[o].pc = "put_response" /\ opt'[o].pc = "returned"
                 /\ opt[o].path = "optimizer") =>
                /\ SoleValue(store', ns, "response_prompt",
                             opt[o].improved_response_prompt)
                /\ written[ns]["triage_prompt"].by = o =>
                      SoleValue(store', ns, "triage_prompt",
                                opt[o].improved_triage_prompt)
                /\ Len(store'[ns]) = Len(store[ns])]_vars

\* a call returned on the oracle's path with both prompts rewritten: the
\* store holds the two revised prompts and not the initial ones
OptimizerStoresRevisedWitness ==
    \E o \in Opts :
       /\ opt[o].pc = "returned"
       /\ opt[o].path = "optimizer"
       /\ opt[o].improved_triage_prompt # opt[o].triage_prompt
       /\ opt[o].improved_response_prompt # opt[o].response_prompt
       /\ Get(store, PromptsOf(opt[o].user), "triage_prompt").value
             = Append(initial_triage_prompt, revised_paragraph)
       /\ Get(store, PromptsOf(opt[o].user), "response_prompt").value
             = Append(initial_response_prompt, revised_paragraph)

\* C27: the fallback amendment is deterministic and derived from the
\* feedback: a call that took the except branch holds the amendment of its
\* (prompts, feedback), and a call that differs in its feedback and in nothing
\* else would hold a different pair of amended prompts.
FallbackFromFeedback ==
    \A o \in Opts :
       opt[o].path = "fallback" =>
          LET amended == <<opt[o].improved_triage_prompt,
                           opt[o].improved_response_prompt>>
          IN
          /\ amended = fallback(opt[o].triage_prompt, opt[o].response_prompt,
                                opt[o].feedback)
          /\ \E feedback \in FeedbackTexts \ {opt[o].feedback} :
                fallback(opt[o].triage_prompt, opt[o].response_prompt, feedback)
                   # amended

\* a call with the second feedback took the except branch and holds the
\* same two notes a call with the first feedback gets
FallbackFromFeedbackWitness ==
    \E o \in Opts :
       /\ opt[o].path = "fallback"
       /\ opt[o].feedback = "feedback_meeting_requests"
       /\ opt[o].improved_triage_prompt = Append(opt[o].triage_prompt, triage_note)
       /\ opt[o].improved_response_prompt
             = Append(opt[o].response_prompt, response_note)

\* optimizer.invoke of call o returned, and its result lacks the entry named
\* triage or the entry named response
IncompleteResult(o) ==
    /\ opt[o].pc \in {"put_triage", "put_response", "returned"}
    /\ ~opt[o].raised
    /\ opt[o].names # {"triage", "response"}

\* C28: when the oracle returns an incomplete prompt set the fallback
\* amendment is applied to both prompts: both prompts to store are the
\* current ones with their note appended, none is left as it was, no prompt of
\* the oracle is kept, and that pair is what the call stores.
IncompleteFallsBack ==
    \A o \in Opts :
       IncompleteResult(o) =>
          LET ns == PromptsOf(opt[o].user) IN
          /\ opt[o].improved_triage_prompt = Append(opt[o].triage_prompt, triage_note)
          /\ opt[o].improved_response_prompt
                = Append(opt[o].response_prompt, response_note)
          /\ opt[o].improved_triage_prompt # opt[o].triage_prompt
          /\ opt[o].improved_response_prompt # opt[o].response_prompt
          /\ (opt[o].pc = "returned" /\ written[ns]["triage_prompt"].by = o) =>
                Get(store, ns, "triage_prompt").value
                   = Append(opt[o].triage_prompt, triage_note)
          /\ (opt[o].pc = "returned" /\ written[ns]["response_prompt"].by = o) =>
                Get(store, ns, "response_prompt").value
                   = Append(opt[o].response_prompt, response_note)

\* the oracle returned the triage entry alone, and the call stored the two
\* amended prompts
IncompleteFallsBackWitness ==
    \E o \in Opts :
       /\ IncompleteResult(o)
       /\ opt[o].names = {"triage"}
       /\ opt[o].pc = "returned"
       /\ Get(store, PromptsOf(opt[o].user), "triage_prompt").value
             = Append(initial_triage_prompt, triage_note)
       /\ Get(store, PromptsOf(opt[o].user), "response_prompt").value
             = Append(initial_response_prompt, response_note)

\* the records that namespace ns held before the step are held after it, in
\* their places and with their values
KeepsRecords(ns) ==
    /\ Len(store'[ns]) >= Len(store[ns])
    /\ \A i \in 1..Len(store[ns]) : store'[ns][i] = store[ns][i]

Appended(r, i) ==
    \E k \in 1..Len(run[r].messages) :
       /\ run[r].messages[k].type = "tool"
       /\ run[r].messages[k].tool_call = run[r].pending[i]
       /\ \A j \in k..Len(run[r].messages) : run[r].messages[j].type = "tool"

\* C30: the tool invocations of one response agent run execute strictly one
\* at a time in the order the model requested them: never are two tools of
\* a run in progress together, and a tool that has started finds the
\* observation of every tool requested before it appended to the messages.
ToolsOneAtATime ==
    \A r \in Runs :
       /\ Cardinality(run[r].in_progress) <= 1
       /\ \A i \in run[r].in_progress \cup run[r].observed :
             \A j \in 1..(i - 1) : Appended(r, j)

\* both tool calls of one message are in progress
ToolsOneAtATimeWitness ==
    \E r \in Runs :
       /\ run[r].pc = "tools_map"
       /\ run[r].in_progress = {1, 2}

\* the store as identity u alone has written it
OwnStore(u) == [ns \in Namespaces |-> IF ns[2] = u THEN store[ns] ELSE <<>>]

\* what a step made for identity u may touch and see: it changes records of
\* the namespaces of u only, and the get or search it makes returns what the
\* namespaces of u alone determine
ConfinedTo(u) ==
    /\ \A ns \in Namespaces : store'[ns] # store[ns] => ns[2] = u
    /\ lastGet' # lastGet =>
          /\ lastGet'.namespace[2] = u
          /\ lastGet'.item = Get(OwnStore(u), lastGet'.namespace, lastGet'.key)
    /\ lastSearch' # lastSearch =>
          /\ lastSearch'.namespace[2] = u
          /\ lastSearch'.results = Search(OwnStore(u), lastSearch'.namespace,
                                          lastSearch'.query, lastSearch'.limit)

\* C31: runs and optimizer calls of different identities do not interfere:
\* every step of a run or of an optimize_prompts call for an identity changes
\* no record of another identity's namespaces, and what it reads from the
\* store is what the namespaces of its own identity hold, whatever the other
\* identity has written.
IdentitiesIndependent ==
    [][/\ \A r \in Runs : run'[r] # run[r] => ConfinedTo(run'[r].user)
       /\ \A o \in Opts : opt'[o] # opt[o] => ConfinedTo(opt'[o].user)]_vars

\* a run of test_user answered with the initial response prompt after an
\* optimizer call for other_user rewrote other_user's prompts
IdentitiesIndependentWitness ==
    \E r \in Runs, o \in Opts :
       /\ run[r].user = "test_user"
       /\ run[r].agent_calls >= 1
       /\ run[r].system_prompt = initial_response_prompt
       /\ opt[o].user = "other_user"
       /\ opt[o].pc = "returned"
       /\ o \in run[r].started_after
       /\ Get(store, Namespace("other_user", "prompts"), "response_prompt").value
             # initial_response_prompt

\* the key optimizer call o puts in the step it is about to make, if any
KeyPut(o) ==
    IF opt[o].pc = "put_triage" THEN "triage_prompt"
    ELSE IF opt[o].pc = "put_response" THEN "response_prompt"
    ELSE "none"

\* C32: optimize_prompts writes exactly two records, triage_prompt and
\* response_prompt of the prompts namespace of its identity: each step of a
\* call leaves every other namespace (examples, facts, other identities) and
\* every other record as it is, the two put steps each write their one key,
\* no record is added, and the feedback text is in no record of its own.
OptimizerWritesTwo ==
    [][\A o \in Opts :
          opt'[o] # opt[o] =>
             LET ns == PromptsOf(opt'[o].user) IN
             /\ \A n \in Namespaces \ {ns} : store'[n] = store[n]
             /\ Len(store'[ns]) = Len(store[ns])
             /\ \A i \in 1..Len(store[ns]) :
                   /\ store'[ns][i].key = store[ns][i].key
                   /\ store[ns][i].key # KeyPut(o) => store'[ns][i] = store[ns][i]
                   /\ store'[ns][i].value # <<opt'[o].feedback>>
             /\ KeyPut(o) # "none" =>
                   /\ written'[ns][KeyPut(o)] # None
                   /\ written'[ns][KeyPut(o)].by = o
                   /\ \A k \in PromptKeys \ {KeyPut(o)} :
                         written'[ns][k] = written[ns][k]]_vars

\* a call returned having rewritten both prompts while the examples and the
\* facts of its identity are there untouched
OptimizerWritesTwoWitness ==
    \E o \in Opts :
       LET u == opt[o].user IN
       /\ opt[o].pc = "returned"
       /\ written[PromptsOf(u)]["triage_prompt"].by = o
       /\ written[PromptsOf(u)]["response_prompt"].by = o
       /\ Len(store[PromptsOf(u)]) = 2
       /\ store[Namespace(u, "examples")] # <<>>
       /\ store[Namespace(u, "collection")] # <<>>

\* the records of store st that the step wrote: new ones and changed ones
WrittenIn(ns) ==
    {i \in 1..Len(store'[ns]) : i > Len(store[ns]) \/ store'[ns][i] # store[ns][i]}

TriageChangesResultOnly ==
    [][\A r \in Runs :
          /\ (run[r].pc \in {"triage", "triage_llm", "route"} /\ run'[r] # run[r]) =>
                /\ run'[r].email_input = run[r].email_input
                /\ run'[r].messages = run[r].messages
                /\ run'[r].triage_result # run[r].triage_result =>
                      /\ run[r].pc = "triage_llm"
                      /\ run'[r].pc = "route"
          /\ (run'[r].pc = "END" /\ run'[r].triage_result \in {"ignore", "notify"}) =>
                /\ run'[r].messages = run'[r].input_messages
                /\ run'[r].messages = <<>>]_vars

\* a run classified notify has ended with the history it was started with
TriageChangesResultOnlyWitness ==
    \E r \in Runs :
       /\ run[r].pc = "END"
       /\ run[r].triage_result = "notify"
       /\ run[r].messages = run[r].input_messages
       /\ run[r].router_calls = 1

\* the value stored under key of namespace ns is the one call o put
WrittenBy(w, ns, key, o) == w[ns][key] # None /\ w[ns][key].by = o

\* call o is the only optimize_prompts call made so far
OnlyCall(o) == \A other \in Opts \ {o} : opt[other].pc = "idle"

\* C35: optimize_prompts writes triage_prompt before response_prompt: with
\* a single call in flight, whenever the store holds the call's response
\* prompt it holds the call's triage prompt too, and a read of triage_prompt
\* made once the new response prompt is stored returns the new triage prompt;
\* the new response prompt never stands with the old triage prompt.
TriageWrittenFirst ==
    [][\A o \in Opts :
          LET ns == PromptsOf(opt[o].user) IN
          (OnlyCall(o) /\ WrittenBy(written, ns, "response_prompt", o)) =>
             /\ WrittenBy(written, ns, "triage_prompt", o)
             /\ Get(store, ns, "triage_prompt").value = opt[o].improved_triage_prompt
             /\ (GetStep /\ lastGet'.namespace = ns
                    /\ lastGet'.key = "triage_prompt") =>
                   lastGet'.item.value = opt[o].improved_triage_prompt]_vars

\* the intermediate state is there to see: a read of response_prompt made
\* between the two puts of a call returned the old response prompt while the
\* store held the new triage prompt
TriageWrittenFirstWitness ==
    \E o \in Opts :
       LET ns == PromptsOf(opt[o].user) IN
       /\ opt[o].pc = "put_response"
       /\ opt[o].improved_triage_prompt # opt[o].triage_prompt
       /\ opt[o].improved_response_prompt # opt[o].response_prompt
       /\ WrittenBy(written, ns, "triage_prompt", o)
       /\ lastGet # None
       /\ lastGet.namespace = ns
       /\ lastGet.key = "response_prompt"
       /\ lastGet.item # None
       /\ lastGet.item.value = opt[o].response_prompt
       /\ \E r \in Runs : run[r].agent_calls >= 1
                           /\ run[r].system_prompt = opt[o].response_prompt
                           /\ run[r].current_prompt_template = opt[o].triage_prompt

\* prompt followed by k copies of note
AmendedTimes(prompt, note, k) == prompt \o [i \in 1..k |-> note]

\* the calls that have completed on the fallback path
CompletedFallbacks ==
    {o \in DOMAIN opt : opt[o].pc = "returned" /\ opt[o].path = "fallback"}

\* every call made so far has completed on the fallback path
AllFallbacksCompleted ==
    \A o \in DOMAIN opt : opt[o].pc = "idle" \/ o \in CompletedFallbacks

\* C36: no optimizer update is lost: once k optimize_prompts calls of the
\* identity have completed on the fallback path, however their reads and
\* writes interleaved, the stored triage prompt is the initial one followed
\* by k copies of the triage note and the stored response prompt the initial
\* one followed by k copies of the response note.
NoLostUpdate ==
    LET ns == PromptsOf("test_user")
        k == Cardinality(CompletedFallbacks)
    IN
    (AllFallbacksCompleted /\ k >= 1) =>
       /\ Get(store, ns, "triage_prompt").value
             = AmendedTimes(initial_triage_prompt, triage_note, k)
       /\ Get(store, ns, "response_prompt").value
             = AmendedTimes(initial_response_prompt, response_note, k)

\* two calls one after the other: both notes are there twice
NoLostUpdateWitness ==
    LET ns == PromptsOf("test_user") IN
    /\ Cardinality(CompletedFallbacks) = 2
    /\ Get(store, ns, "triage_prompt").value
          = AmendedTimes(initial_triage_prompt, triage_note, 2)
    /\ Get(store, ns, "response_prompt").value
          = AmendedTimes(initial_response_prompt, response_note, 2)
====
